---- MODULE Spec2Model ----
(***************************************************************************)
(* solid-bucket: the command line entry point cli (src/solid-bucket/cli.py)*)
(* and the coroutine downloader Bucket (src/solid-bucket/bucket.py).       *)
(*                                                                         *)
(* Strings that the code takes apart (object keys, local paths) are        *)
(* sequences of one-character strings, so that concatenation, dirname and  *)
(* the trailing separator are computed rather than assumed.                *)
(*                                                                         *)
(* The object store and the local file system are the environment:         *)
(*   - the store answers a listing with `pages` and may fail any request   *)
(*     (at most MaxFailures requests of one run are failed);               *)
(*   - the download directory is empty when the run starts.                *)
(* multiprocessing.Pool is modelled with the fork start method: the pool's *)
(* processes see the module globals as they were when Pool() was called.   *)
(* Pool.starmap hands the jobs out in list order, in chunks of             *)
(* ceil(len / (4 * cpus)) jobs; within the bounds below a chunk is one job.*)
(***************************************************************************)
EXTENDS Integers, Sequences, FiniteSets, TLC

\* ------------------------------------------------------------ bounds
MaxKeys == 3        \* keys of a listing (download_handler, get_files_by_prefix runs)
CliMaxKeys == 1     \* keys of a listing in the runs that vary every CLI option
MaxCpus == 2        \* largest --cpus value
MaxFailures == 1    \* store requests the environment fails in one run
TestObjects == 2    \* objects test_setup writes (range(1, 10000) in the code)

\* ------------------------------------------------------------ strings
Slash == "/"

\* The keys the store may hold, in the store's listing order (byte order).
KeyOrder ==
  << <<"a">>, <<"a", "/">>, <<"a", "/", "b">>, <<"b">>, <<"c", "/", "d">> >>

\* --localdir values: the default shape "d/" and one without trailing separator.
LocalDirs == { <<"d", "/">>, <<"d">> }

\* str.rfind("/") + 1
LastSlash(p) ==
  LET S == { i \in 1..Len(p) : p[i] = Slash }
  IN  IF S = {} THEN 0 ELSE CHOOSE i \in S : \A j \in S : j <= i

AllSlashes(s) == \A i \in 1..Len(s) : s[i] = Slash

RECURSIVE RStripSlash(_)
RStripSlash(s) ==
  IF s # <<>> /\ s[Len(s)] = Slash THEN RStripSlash(SubSeq(s, 1, Len(s) - 1)) ELSE s

\* os.path.dirname (posixpath)
dirname(p) ==
  LET head == SubSeq(p, 1, LastSlash(p))
  IN  IF head # <<>> /\ ~AllSlashes(head) THEN RStripSlash(head) ELSE head

\* The directory `name` and every directory above it: what os.makedirs creates.
RECURSIVE DirChain(_)
DirChain(name) ==
  IF name = <<>> \/ AllSlashes(name) THEN {}
  ELSE {RStripSlash(name)} \cup DirChain(dirname(RStripSlash(name)))

\* A faulty variant: the file name of the key only, local_dir + basename(src_obj).
DestPathFlat(local_dir, src_obj) ==
  local_dir \o SubSeq(src_obj, LastSlash(src_obj) + 1, Len(src_obj))

\* dest_path = local_dir + "" + src_obj      (local_dir + c["Key"] in bucket.py)
DestPath(local_dir, src_obj) == local_dir \o src_obj

\* A faulty variant: the directories are not created.
makedirsNone(ds, dest_path) == ds

\* os.path.dirname(dest_path) and os.makedirs(os.path.dirname(dest_path), exist_ok=True)
\* The directories present afterwards.
makedirs(ds, dest_path) ==
  IF dirname(dest_path) # <<>> THEN ds \cup DirChain(dirname(dest_path)) ELSE ds

\* makedirs raises when a component of the directory exists as a file.
makedirsFails(fs, dest_path) ==
  dirname(dest_path) # <<>> /\ DirChain(dirname(dest_path)) \cap fs # {}

\* Opening dest_path for writing succeeds: it names no directory and its parent exists.
CanWrite(ds, dest_path) ==
  /\ dest_path # <<>>
  /\ dest_path[Len(dest_path)] # Slash
  /\ dest_path \notin ds
  /\ (dirname(dest_path) = <<>> \/ AllSlashes(dirname(dest_path))
        \/ dirname(dest_path) \in ds)

\* ------------------------------------------------------------ listings
RECURSIVE SortedSeq(_)
SortedSeq(S) ==
  IF S = {} THEN <<>>
  ELSE LET m == CHOOSE x \in S : \A y \in S : x <= y
       IN  <<m>> \o SortedSeq(S \ {m})

\* The keys of KeyOrder at the positions S, in listing order.
SubListing(S) == [i \in 1..Cardinality(S) |-> KeyOrder[SortedSeq(S)[i]]]

\* One page of a list_objects answer.  A page without objects has no "Contents".
PageOf(ks) ==
  IF ks = <<>> THEN [KeyCount |-> 0]
  ELSE [KeyCount |-> Len(ks), Contents |-> [i \in 1..Len(ks) |-> [Key |-> ks[i]]]]

\* The listing K cut into pages after the positions C.
Paginate(K, C) ==
  IF K = <<>> THEN << PageOf(<<>>) >>
  ELSE LET ends == SortedSeq(C \cup {Len(K)})
       IN  [p \in 1..Len(ends) |->
              PageOf(SubSeq(K, IF p = 1 THEN 1 ELSE ends[p - 1] + 1, ends[p]))]

Listings(n) ==
  UNION { { Paginate(SubListing(S), C) : C \in SUBSET (1..(Cardinality(S) - 1)) } :
            S \in { T \in SUBSET (1..Len(KeyOrder)) : Cardinality(T) <= n } }

\* "Contents" in page
HasContents(page) == "Contents" \in DOMAIN page

\* A faulty variant: the first object of every page is skipped.
ContentsTail(page) == IF "Contents" \in DOMAIN page THEN Tail(page.Contents) ELSE <<>>

\* result.get("Contents", [])
Contents(page) == IF "Contents" \in DOMAIN page THEN page.Contents ELSE <<>>

\* The keys of a page, and of a listing, in order.
KeysOf(page) ==
  IF page.KeyCount = 0 THEN <<>>
  ELSE [i \in 1..page.KeyCount |-> page.Contents[i].Key]

RECURSIVE Flatten(_)
Flatten(ps) == IF ps = <<>> THEN <<>> ELSE KeysOf(Head(ps)) \o Flatten(Tail(ps))

\* ------------------------------------------------------------ state
VARIABLES
  args,                   \* the options of this run of cli
  pages,                  \* the store's answer to the listing of (bucket, prefix)
  pc,                     \* where the main process is
  branch,                 \* the transfer model cli selected: "none" before the choice
  ran,                    \* the operations called so far
  AWS_ACCESS_KEY_ID,      \* Bucket._AWS_ACCESS_KEY_ID
  AWS_SECRET_ACCESS_KEY,  \* Bucket._AWS_SECRET_ACCESS_KEY
  client,                 \* the module global `client` of cli.py: who constructed it
  made,                   \* who has constructed a store client so far
  poolClient,             \* the global `client` as the pool's processes see it
  usedClient,             \* the constructors of the clients the workers fetched with
  mp_data,                \* download_handler's job list
  pageNo, objs, objNo,    \* the listing loop: pages fetched, current page, next object
  nextJob,                \* the next job starmap hands to a free worker
  running,                \* the jobs whose download_file call is in progress
  result,                 \* per job: "queued", "running", "ok", "caught" or the exception
  cur,                    \* the key the coroutine is fetching or writing
  inflight,               \* get_object calls of the coroutine not yet answered
  dirs, files,            \* the local file system: directories and files
  mkdirBy,                \* who has called os.makedirs
  writeLog,               \* the files written, in order: <<key, path>>
  printed,                \* the keys named in "not found" diagnostics
  ret,                    \* download_handler's return value, <<>> before it returns
  exc,                    \* the exception that ended cli, "none" otherwise
  net,                    \* the kinds of store requests issued so far
  testN,                  \* test_setup's loop variable n
  failed                  \* the store requests that failed: << kind, key >>

vars ==
  << args, pages, pc, branch, ran, AWS_ACCESS_KEY_ID, AWS_SECRET_ACCESS_KEY, client,
     made, poolClient, usedClient, mp_data, pageNo, objs, objNo, nextJob, running,
     result, cur, inflight, dirs, files, mkdirBy, writeLog, printed, ret, exc, net,
     testN, failed >>

\* Groups of variables an action leaves alone.
credVars == << AWS_ACCESS_KEY_ID, AWS_SECRET_ACCESS_KEY >>
listVars == << pageNo, objs, objNo >>
poolVars == << nextJob, running, result, usedClient >>
fsVars   == << dirs, files, mkdirBy, writeLog >>
coVars   == << cur, inflight >>

\* The options of cli.  cpus and key are <<>> when the option is absent.
Args(configs, flags, tests, cpuss, cors, prefixes, keys, localdirs) ==
  [ config : configs, accesskey : flags, secretkey : flags, test : tests,
    cpus : cpuss, coroutines : cors, prefix : prefixes, key : keys,
    localdir : localdirs ]

InitWith(A, L) ==
  /\ args \in A
  /\ pages \in L
  /\ pc = "start"
  /\ branch = "none"
  /\ ran = {}
  /\ AWS_ACCESS_KEY_ID = "None"
  /\ AWS_SECRET_ACCESS_KEY = "None"
  /\ client = "unset"
  /\ made = {}
  /\ poolClient = "unset"
  /\ usedClient = {}
  /\ mp_data = <<>>
  /\ pageNo = 0
  /\ objs = <<>>
  /\ objNo = 1
  /\ nextJob = 1
  /\ running = {}
  /\ result = <<>>
  /\ cur = <<>>
  /\ inflight = 0
  /\ dirs = {}
  /\ files = {}
  /\ mkdirBy = {}
  /\ writeLog = <<>>
  /\ printed = <<>>
  /\ ret = <<>>
  /\ exc = "none"
  /\ net = {}
  /\ testN = 0
  /\ failed = <<>>

\* An uncaught exception e ends the process.
Raise(e) == /\ pc' = "raised"
            /\ exc' = e

\* ------------------------------------------------------------ cli: configuration
\* if config: Bucket.prepare(data.get("accessKey"), data.get("secretKey"), ...)
\* else: if accesskey and secretkey: Bucket.prepare(accesskey, secretkey, ...)
PreparedAccess(a) ==
  IF a.config # "none"
  THEN IF a.config \in {"full", "noSecret"} THEN "key" ELSE "None"
  ELSE IF a.accesskey /\ a.secretkey THEN "key" ELSE "None"

PreparedSecret(a) ==
  IF a.config # "none"
  THEN IF a.config \in {"full", "noAccess"} THEN "key" ELSE "None"
  ELSE IF a.accesskey /\ a.secretkey THEN "key" ELSE "None"

cli_configure ==
  /\ pc = "start"
  /\ AWS_ACCESS_KEY_ID' = PreparedAccess(args)
  /\ AWS_SECRET_ACCESS_KEY' = PreparedSecret(args)
  /\ pc' = "test"
  /\ UNCHANGED << args, pages, branch, ran, client, made, poolClient, mp_data, listVars,
                  poolVars, coVars, fsVars, printed, ret, exc, net, testN, failed >>

\* Bucket.__init__: if not _AWS_ACCESS_KEY_ID or not _AWS_SECRET_ACCESS_KEY: raise TypeError
BucketInitRaises == AWS_ACCESS_KEY_ID = "None" \/ AWS_SECRET_ACCESS_KEY = "None"

\* ------------------------------------------------------------ cli: --test
\* bkt = Bucket("test"); loop.run_until_complete(bkt.test_setup()), up to the creation
\* of test_setup's client.
cli_test ==
  /\ pc = "test"
  /\ args.test
  /\ IF BucketInitRaises
     THEN Raise("TypeError") /\ UNCHANGED << ran, made, testN >>
     ELSE /\ pc' = "test_setup"
          /\ ran' = ran \cup {"test_setup"}
          /\ made' = made \cup {"coroutine"}
          /\ testN' = 1
          /\ exc' = exc
  /\ UNCHANGED << args, pages, branch, credVars, client, poolClient, mp_data, listVars,
                  poolVars, coVars, fsVars, printed, ret, net, failed >>

cli_no_test ==
  /\ pc = "test"
  /\ ~args.test
  /\ pc' = "mode"
  /\ UNCHANGED << args, pages, branch, ran, credVars, client, made, poolClient, mp_data,
                  listVars, poolVars, coVars, fsVars, printed, ret, exc, net, testN,
                  failed >>

\* for n in range(1, 10000): await client.put_object(...)
test_setup_put ==
  /\ pc = "test_setup"
  /\ testN <= TestObjects
  /\ net' = net \cup {"put"}
  /\ testN' = testN + 1
  /\ UNCHANGED << args, pages, pc, branch, ran, credVars, client, made, poolClient,
                  mp_data, listVars, poolVars, coVars, fsVars, printed, ret, exc,
                  failed >>

test_setup_put_fails ==
  /\ pc = "test_setup"
  /\ testN <= TestObjects
  /\ Len(failed) < MaxFailures
  /\ net' = net \cup {"put"}
  /\ failed' = Append(failed, << "put", <<>> >>)
  /\ Raise("ClientError")
  /\ UNCHANGED << args, pages, branch, ran, credVars, client, made, poolClient, mp_data,
                  listVars, poolVars, coVars, fsVars, printed, ret, testN >>

test_setup_return ==
  /\ pc = "test_setup"
  /\ testN > TestObjects
  /\ pc' = "mode"
  /\ UNCHANGED << args, pages, branch, ran, credVars, client, made, poolClient, mp_data,
                  listVars, poolVars, coVars, fsVars, printed, ret, exc, net, testN,
                  failed >>

\* ------------------------------------------------------------ cli: the transfer model
\* if cpus: <parallel> else: if coroutines: <coroutine>
Truthy(cpus) == cpus # <<>> /\ cpus[1] # 0

\* A faulty variant: --coroutines is tested first.
SelectBranchCoroutineFirst(cpus, coroutines) ==
  IF coroutines THEN "coroutine"
  ELSE IF Truthy(cpus) THEN "parallel" ELSE "neither"

SelectBranch(cpus, coroutines) ==
  IF Truthy(cpus) THEN "parallel"
  ELSE IF coroutines THEN "coroutine" ELSE "neither"

\* client = boto3.client("s3", ..., aws_access_key_id=Bucket._AWS_ACCESS_KEY_ID, ...)
\* followed by the call of download_handler(bucket, prefix, cpus, localdir).
cli_parallel ==
  /\ pc = "mode"
  /\ SelectBranch(args.cpus, args.coroutines) = "parallel"
  /\ branch' = "parallel"
  /\ client' = "cli"
  /\ made' = made \cup {"cli"}
  /\ ran' = ran \cup {"download_handler"}
  /\ pc' = "dh_pool"
  /\ UNCHANGED << args, pages, credVars, poolClient, mp_data, listVars, poolVars, coVars,
                  fsVars, printed, ret, exc, net, testN, failed >>

\* bkt = Bucket(bucket); then get_files_by_prefix if prefix, else get_files_by_key if key.
cli_coroutines ==
  /\ pc = "mode"
  /\ SelectBranch(args.cpus, args.coroutines) = "coroutine"
  /\ branch' = "coroutine"
  /\ IF BucketInitRaises
     THEN Raise("TypeError") /\ UNCHANGED << ran >>
     ELSE /\ exc' = exc
          /\ IF args.prefix
             THEN pc' = "co_prefix" /\ ran' = ran \cup {"get_files_by_prefix"}
             ELSE IF args.key # <<>>
                  THEN pc' = "co_key" /\ ran' = ran \cup {"get_files_by_key"}
                  ELSE pc' = "done" /\ ran' = ran
  /\ UNCHANGED << args, pages, credVars, client, made, poolClient, mp_data, listVars,
                  poolVars, coVars, fsVars, printed, ret, net, testN, failed >>

cli_neither ==
  /\ pc = "mode"
  /\ SelectBranch(args.cpus, args.coroutines) = "neither"
  /\ branch' = "neither"
  /\ pc' = "done"
  /\ UNCHANGED << args, pages, ran, credVars, client, made, poolClient, mp_data, listVars,
                  poolVars, coVars, fsVars, printed, ret, exc, net, testN, failed >>

\* ------------------------------------------------------------ download_handler
\* pg = client.get_paginator(...); pages = pg.paginate(...)   (no request yet)
\* pool = Pool(cpus): ValueError when cpus < 1; the processes are forked here.
download_handler_pool ==
  /\ pc = "dh_pool"
  /\ IF args.cpus[1] < 1
     THEN Raise("ValueError") /\ UNCHANGED << poolClient >>
     ELSE /\ poolClient' = client
          /\ pc' = "dh_list"
          /\ exc' = exc
  /\ UNCHANGED << args, pages, branch, ran, credVars, client, made, mp_data, listVars,
                  poolVars, coVars, fsVars, printed, ret, net, testN, failed >>

\* A faulty variant: only the first page is asked for.
NextPageOnce(fetched, total) == fetched = 0

\* The paginator has another page to hand over.
NextPage(fetched, total) == fetched < total

\* for page in pages: if "Contents" in page: ...
download_handler_page ==
  /\ pc = "dh_list"
  /\ objNo > Len(objs)
  /\ NextPage(pageNo, Len(pages))
  /\ net' = net \cup {"list"}
  /\ pageNo' = pageNo + 1
  /\ objs' = IF HasContents(pages[pageNo + 1]) THEN pages[pageNo + 1].Contents ELSE <<>>
  /\ objNo' = 1
  /\ UNCHANGED << args, pages, pc, branch, ran, credVars, client, made, poolClient,
                  mp_data, poolVars, coVars, fsVars, printed, ret, exc, testN, failed >>

\* The listing request fails: nothing in download_handler catches it.
download_handler_page_fails ==
  /\ pc = "dh_list"
  /\ objNo > Len(objs)
  /\ NextPage(pageNo, Len(pages))
  /\ Len(failed) < MaxFailures
  /\ failed' = Append(failed, << "list", <<>> >>)
  /\ net' = net \cup {"list"}
  /\ Raise("ClientError")
  /\ UNCHANGED << args, pages, branch, ran, credVars, client, made, poolClient, mp_data,
                  listVars, poolVars, coVars, fsVars, printed, ret, testN >>

\* for obj in page["Contents"]: mp_data.append(...); makedirs(dirname(dest_path))
download_handler_obj ==
  /\ pc = "dh_list"
  /\ objNo <= Len(objs)
  /\ LET src_obj == objs[objNo].Key
         dest_path == DestPath(args.localdir, src_obj)
     IN  /\ mp_data' = Append(mp_data, [src_obj |-> src_obj, dest_path |-> dest_path])
         /\ IF makedirsFails(files, dest_path)
            THEN Raise("OSError") /\ UNCHANGED << dirs, mkdirBy, objNo >>
            ELSE /\ dirs' = makedirs(dirs, dest_path)
                 /\ mkdirBy' = IF dirname(dest_path) # <<>>
                               THEN mkdirBy \cup {"main"} ELSE mkdirBy
                 /\ objNo' = objNo + 1
                 /\ UNCHANGED << pc, exc >>
  /\ UNCHANGED << args, pages, branch, ran, credVars, client, made, poolClient, pageNo,
                  objs, poolVars, coVars, files, writeLog, printed, ret, net, testN,
                  failed >>

\* pool.starmap(download, mp_data): the jobs are handed to the pool.
download_handler_starmap ==
  /\ pc = "dh_list"
  /\ objNo > Len(objs)
  /\ ~NextPage(pageNo, Len(pages))
  /\ pc' = "dh_map"
  /\ nextJob' = 1
  /\ result' = [j \in 1..Len(mp_data) |-> "queued"]
  /\ UNCHANGED << args, pages, branch, ran, credVars, client, made, poolClient, mp_data,
                  listVars, running, usedClient, coVars, fsVars, printed, ret, exc, net,
                  testN, failed >>

\* ------------------------------------------------------------ download (a worker)
\* A free worker takes the next job and calls client.download_file(...), with the
\* `client` its process sees.
download_call ==
  /\ pc = "dh_map"
  /\ nextJob <= Len(mp_data)
  /\ Cardinality(running) < args.cpus[1]
  /\ running' = running \cup {nextJob}
  /\ result' = [result EXCEPT ![nextJob] = "running"]
  /\ nextJob' = nextJob + 1
  /\ usedClient' = usedClient \cup {poolClient}
  /\ net' = net \cup {"get"}
  /\ UNCHANGED << args, pages, pc, branch, ran, credVars, client, made, poolClient,
                  mp_data, listVars, coVars, fsVars, printed, ret, exc, testN, failed >>

\* download_file fetched the object and wrote it to dest_path.
download_ok ==
  \E j \in running :
    /\ CanWrite(dirs, mp_data[j].dest_path)
    /\ files' = files \cup {mp_data[j].dest_path}
    /\ writeLog' = Append(writeLog, << mp_data[j].src_obj, mp_data[j].dest_path >>)
    /\ running' = running \ {j}
    /\ result' = [result EXCEPT ![j] = "ok"]
    /\ UNCHANGED << args, pages, pc, branch, ran, credVars, client, made, poolClient,
                    mp_data, listVars, nextJob, usedClient, coVars, dirs, mkdirBy,
                    printed, ret, exc, net, testN, failed >>

\* download_file cannot write dest_path: the OSError is no Boto3Error.
download_oserror ==
  \E j \in running :
    /\ ~CanWrite(dirs, mp_data[j].dest_path)
    /\ running' = running \ {j}
    /\ result' = [result EXCEPT ![j] = "OSError"]
    /\ UNCHANGED << args, pages, pc, branch, ran, credVars, client, made, poolClient,
                    mp_data, listVars, nextJob, usedClient, coVars, fsVars, printed, ret,
                    exc, net, testN, failed >>

\* The exceptions a failing fetch raises: boto3's own (S3TransferFailedError,
\* RetriesExceededError) and botocore's ClientError (404, 403, ...).
FetchErrors == {"Boto3Error", "ClientError"}

\* except Boto3Error:
Caught(e) == e = "Boto3Error"

\* The fetch fails with e: download prints the diagnostic if it catches e,
\* otherwise the exception is the job's result.
download_fails ==
  \E j \in running, e \in FetchErrors :
    /\ Len(failed) < MaxFailures
    /\ failed' = Append(failed, << "get", mp_data[j].src_obj >>)
    /\ running' = running \ {j}
    /\ IF Caught(e)
       THEN /\ printed' = Append(printed, mp_data[j].src_obj)
            /\ result' = [result EXCEPT ![j] = "caught"]
       ELSE /\ printed' = printed
            /\ result' = [result EXCEPT ![j] = e]
    /\ UNCHANGED << args, pages, pc, branch, ran, credVars, client, made, poolClient,
                    mp_data, listVars, nextJob, usedClient, coVars, fsVars, ret, exc, net,
                    testN >>

Finished(r) == r \in {"ok", "caught"}
AllJobsDone == nextJob > Len(mp_data) /\ running = {}

\* starmap returns once every job is done; return len(mp_data)
download_handler_return ==
  /\ pc = "dh_map"
  /\ AllJobsDone
  /\ \A j \in 1..Len(result) : Finished(result[j])
  /\ ret' = << Len(mp_data) >>
  /\ pc' = "done"
  /\ UNCHANGED << args, pages, branch, ran, credVars, client, made, poolClient, mp_data,
                  listVars, poolVars, coVars, fsVars, printed, exc, net, testN, failed >>

\* starmap raises a job's exception (the first one reported) in the main process.
download_handler_reraise ==
  /\ pc = "dh_map"
  /\ AllJobsDone
  /\ \E j \in 1..Len(result) :
       /\ ~Finished(result[j])
       /\ Raise(result[j])
  /\ UNCHANGED << args, pages, branch, ran, credVars, client, made, poolClient, mp_data,
                  listVars, poolVars, coVars, fsVars, printed, ret, net, testN, failed >>

\* ------------------------------------------------------------ Bucket.get_files_by_prefix
\* client = await self._create_client(exit_stack); paginator = client.get_paginator(...)
get_files_by_prefix_enter ==
  /\ pc = "co_prefix"
  /\ made' = made \cup {"coroutine"}
  /\ pc' = "co_list"
  /\ UNCHANGED << args, pages, branch, ran, credVars, client, poolClient, mp_data,
                  listVars, poolVars, coVars, fsVars, printed, ret, exc, net, testN,
                  failed >>

\* async for result in paginator.paginate(...): for c in result.get("Contents", []):
get_files_by_prefix_page ==
  /\ pc = "co_list"
  /\ objNo > Len(objs)
  /\ NextPage(pageNo, Len(pages))
  /\ net' = net \cup {"list"}
  /\ pageNo' = pageNo + 1
  /\ objs' = Contents(pages[pageNo + 1])
  /\ objNo' = 1
  /\ UNCHANGED << args, pages, pc, branch, ran, credVars, client, made, poolClient,
                  mp_data, poolVars, coVars, fsVars, printed, ret, exc, testN, failed >>

get_files_by_prefix_page_fails ==
  /\ pc = "co_list"
  /\ objNo > Len(objs)
  /\ NextPage(pageNo, Len(pages))
  /\ Len(failed) < MaxFailures
  /\ failed' = Append(failed, << "list", <<>> >>)
  /\ net' = net \cup {"list"}
  /\ Raise("ClientError")
  /\ UNCHANGED << args, pages, branch, ran, credVars, client, made, poolClient, mp_data,
                  listVars, poolVars, coVars, fsVars, printed, ret, testN >>

\* resp = await client.get_object(Bucket=self.bucket_name, Key=c["Key"]): the request
get_files_by_prefix_get ==
  /\ pc = "co_list"
  /\ objNo <= Len(objs)
  /\ cur' = << objs[objNo].Key >>
  /\ inflight' = inflight + 1
  /\ net' = net \cup {"get"}
  /\ pc' = "co_get"
  /\ UNCHANGED << args, pages, branch, ran, credVars, client, made, poolClient, mp_data,
                  listVars, poolVars, fsVars, printed, ret, exc, testN, failed >>

get_files_by_prefix_return ==
  /\ pc = "co_list"
  /\ objNo > Len(objs)
  /\ ~NextPage(pageNo, Len(pages))
  /\ pc' = "done"
  /\ UNCHANGED << args, pages, branch, ran, credVars, client, made, poolClient, mp_data,
                  listVars, poolVars, coVars, fsVars, printed, ret, exc, net, testN,
                  failed >>

\* ------------------------------------------------------------ Bucket.get_files_by_key
\* client = await self._create_client(exit_stack); resp = await client.get_object(Key=key)
get_files_by_key_get ==
  /\ pc = "co_key"
  /\ made' = made \cup {"coroutine"}
  /\ cur' = args.key
  /\ inflight' = inflight + 1
  /\ net' = net \cup {"get"}
  /\ pc' = "co_get"
  /\ UNCHANGED << args, pages, branch, ran, credVars, client, poolClient, mp_data,
                  listVars, poolVars, fsVars, printed, ret, exc, testN, failed >>

\* ------------------------------------------------------------ get_object, _write_file
\* The object arrives: data = await stream.read()
get_object_ok ==
  /\ pc = "co_get"
  /\ inflight' = inflight - 1
  /\ pc' = "co_write"
  /\ UNCHANGED << args, pages, branch, ran, credVars, client, made, poolClient, mp_data,
                  listVars, poolVars, cur, fsVars, printed, ret, exc, net, testN,
                  failed >>

\* A faulty variant: the error is caught and printed, and the write still follows.
get_object_fails_swallowed ==
  /\ pc = "co_get"
  /\ Len(failed) < MaxFailures
  /\ failed' = Append(failed, << "get", cur[1] >>)
  /\ inflight' = inflight - 1
  /\ printed' = Append(printed, cur[1])
  /\ pc' = "co_write"
  /\ UNCHANGED << args, pages, branch, ran, credVars, client, made, poolClient, mp_data,
                  listVars, poolVars, cur, fsVars, ret, exc, net, testN >>

\* get_object raises (NoSuchKey, a transport error): neither get_files_by_prefix
\* nor get_files_by_key has a try around it.
get_object_fails ==
  /\ pc = "co_get"
  /\ Len(failed) < MaxFailures
  /\ failed' = Append(failed, << "get", cur[1] >>)
  /\ inflight' = inflight - 1
  /\ Raise("ClientError")
  /\ UNCHANGED << args, pages, branch, ran, credVars, client, made, poolClient, mp_data,
                  listVars, poolVars, cur, fsVars, printed, ret, testN, net >>

\* await self._write_file(local_dir + key, data): makedirs of the parent, then the write.
\* After it get_files_by_key is over; get_files_by_prefix goes on with the next object.
write_file ==
  /\ pc = "co_write"
  /\ LET dest_path == DestPath(args.localdir, cur[1])
     IN  IF makedirsFails(files, dest_path)
         THEN Raise("OSError") /\ UNCHANGED << fsVars, objNo >>
         ELSE /\ dirs' = makedirs(dirs, dest_path)
              /\ mkdirBy' = IF dirname(dest_path) # <<>>
                            THEN mkdirBy \cup {"coroutine"} ELSE mkdirBy
              /\ IF CanWrite(dirs', dest_path)
                 THEN /\ files' = files \cup {dest_path}
                      /\ writeLog' = Append(writeLog, << cur[1], dest_path >>)
                      /\ objNo' = IF "get_files_by_key" \in ran THEN objNo ELSE objNo + 1
                      /\ pc' = IF "get_files_by_key" \in ran THEN "done" ELSE "co_list"
                      /\ exc' = exc
                 ELSE Raise("OSError") /\ UNCHANGED << files, writeLog, objNo >>
  /\ UNCHANGED << args, pages, branch, ran, credVars, client, made, poolClient, mp_data,
                  pageNo, objs, poolVars, coVars, printed, ret, net, testN, failed >>

\* ------------------------------------------------------------ specifications
ConfigFiles == {"none", "full", "noAccess", "noSecret"}
CpusOptions == { <<>> } \cup { << n >> : n \in (-1)..MaxCpus }

\* Every combination of options, on small listings.
Init ==
  InitWith(Args(ConfigFiles, BOOLEAN, BOOLEAN, CpusOptions, BOOLEAN, BOOLEAN,
                { <<>>, << KeyOrder[1] >> }, { <<"d", "/">> }),
           Listings(CliMaxKeys))

ParallelSteps ==
  \/ download_handler_pool
  \/ download_handler_page
  \/ download_handler_page_fails
  \/ download_handler_obj
  \/ download_handler_starmap
  \/ download_call
  \/ download_ok
  \/ download_oserror
  \/ download_fails
  \/ download_handler_return
  \/ download_handler_reraise

CoroutineSteps ==
  \/ get_files_by_prefix_enter
  \/ get_files_by_prefix_page
  \/ get_files_by_prefix_page_fails
  \/ get_files_by_prefix_get
  \/ get_files_by_prefix_return
  \/ get_files_by_key_get
  \/ get_object_ok
  \/ get_object_fails
  \/ write_file

Next ==
  \/ cli_configure
  \/ cli_test
  \/ cli_no_test
  \/ test_setup_put
  \/ test_setup_put_fails
  \/ test_setup_return
  \/ cli_parallel
  \/ cli_coroutines
  \/ cli_neither
  \/ ParallelSteps
  \/ CoroutineSteps

Spec == Init /\ [][Next]_vars

\* cli with credentials given and --cpus N, N >= 1, on every listing.
InitParallel ==
  InitWith(Args({"none", "full"}, {TRUE}, {FALSE}, { << n >> : n \in 1..MaxCpus },
                BOOLEAN, {TRUE}, { <<>> }, LocalDirs),
           Listings(MaxKeys))

NextParallel ==
  \/ cli_configure
  \/ cli_no_test
  \/ cli_parallel
  \/ ParallelSteps

SpecParallel == InitParallel /\ [][NextParallel]_vars

\* cli with credentials given and --coroutines, on every listing and key.
InitCoroutine ==
  InitWith(Args({"full"}, {FALSE}, {FALSE}, { <<>>, << 0 >> }, {TRUE}, BOOLEAN,
                { <<>> } \cup { << KeyOrder[i] >> : i \in 1..Len(KeyOrder) }, LocalDirs),
           Listings(MaxKeys))

NextCoroutine ==
  \/ cli_configure
  \/ cli_no_test
  \/ cli_coroutines
  \/ CoroutineSteps

SpecCoroutine == InitCoroutine /\ [][NextCoroutine]_vars

\* ------------------------------------------------------------ vocabulary of the claims
\* The keys the listing of (bucket, prefix) returns, in order.
K == Flatten(pages)

\* { local_dir + k : k in ks }
Image(ks) == { args.localdir \o ks[i] : i \in 1..Len(ks) }

JobKeys == [i \in 1..Len(mp_data) |-> mp_data[i].src_obj]
WrittenKeys == [i \in 1..Len(writeLog) |-> writeLog[i][1]]

Over == pc \in {"done", "raised"}
ParallelRun == "download_handler" \in ran /\ args.cpus[1] >= 1
PrefixRun == "get_files_by_prefix" \in ran
KeyRun == "get_files_by_key" \in ran

\* The store requests that failed were fetches of objects, n of them.
FetchesFailed(n) ==
  /\ Len(failed) = n
  /\ \A i \in 1..Len(failed) : failed[i][1] = "get"

\* A listing a file system can hold under local_dir: no key ends with the separator
\* and no destination path is a directory above another destination path.
Realisable(ks) ==
  \A i \in 1..Len(ks) :
    /\ ks[i][Len(ks[i])] # Slash
    /\ \A j \in 1..Len(ks) :
         (args.localdir \o ks[i]) \notin DirChain(dirname(args.localdir \o ks[j]))

\* ------------------------------------------------------------ C1
\* C1, as stated: for every listing K, when every request succeeds, download_handler
\* returns |K| and the files written are exactly { local_dir + k : k in K }.
C1_EveryListing ==
  (ParallelRun /\ Over /\ failed = <<>>) =>
     /\ pc = "done"
     /\ ret = << Len(K) >>
     /\ files = Image(K)

\* C1, amended: for every listing K that a file system can hold under local_dir (no key
\* ends with "/", no destination path is a directory above another one), when every
\* request succeeds, download_handler returns |K| and the files written are exactly
\* { local_dir + k : k in K }, for any pool size cpus >= 1 and any split into pages.
C1_RealisableListing ==
  (ParallelRun /\ Over /\ failed = <<>> /\ Realisable(K)) =>
     /\ pc = "done"
     /\ ret = << Len(K) >>
     /\ files = Image(K)
     /\ Cardinality(files) = Len(K)

C1_Witness ==
  /\ ParallelRun /\ pc = "done" /\ failed = <<>> /\ Realisable(K)
  /\ Len(K) = 3 /\ Len(pages) = 2 /\ args.cpus[1] = 2
  /\ \E i \in 1..Len(K) : dirname(args.localdir \o K[i]) \in dirs

\* ------------------------------------------------------------ C2
\* C2: in the parallel path, when the fetch of exactly one listed key fails, the
\* worker prints one diagnostic, every other job writes its file, and download_handler
\* does not raise and returns |K|.
C2_OneFetchFails ==
  (ParallelRun /\ Over /\ FetchesFailed(1) /\ Realisable(K)) =>
     /\ pc = "done"
     /\ exc = "none"
     /\ ret = << Len(K) >>
     /\ Len(printed) = 1
     /\ files = Image(K) \ { args.localdir \o failed[1][2] }

\* ------------------------------------------------------------ C3
\* C3: in get_files_by_prefix, when the get_object of exactly one listed key fails,
\* every other key of the listing is still fetched and written and the operation
\* does not raise.
C3_OneFetchFails ==
  (PrefixRun /\ Over /\ FetchesFailed(1) /\ Realisable(K)) =>
     /\ pc = "done"
     /\ exc = "none"
     /\ files = Image(K) \ { args.localdir \o failed[1][2] }

Unconfigured ==
  IF args.config = "none" THEN ~(args.accesskey /\ args.secretkey)
  ELSE args.config \in {"noAccess", "noSecret"}

\* C5: on every path, when the access key or the secret key is not configured, no
\* store client is constructed and no request is issued to the store.
C5_NoClientNoNetwork ==
  Unconfigured => (made = {} /\ net = {})

\* ------------------------------------------------------------ C6
CoroutineDownload == ran \cap {"get_files_by_prefix", "get_files_by_key"} # {}
NeverCombined == ~("download_handler" \in ran /\ CoroutineDownload)

\* C6, as stated: the two models are never combined, and with --cpus N and
\* --coroutines both given the parallel path runs and no coroutine download does.
C6_AnyCpus ==
  /\ NeverCombined
  /\ (args.cpus # <<>> /\ args.coroutines /\ branch # "none" /\ exc = "none") =>
        ("download_handler" \in ran /\ ~CoroutineDownload)

\* C6, amended: the two models are never combined, and with --cpus N, N # 0, and
\* --coroutines both given the parallel path runs and no coroutine download does
\* (--cpus 0 counts as no --cpus: with --coroutines the coroutine download runs).
C6_NonZeroCpus ==
  /\ NeverCombined
  /\ (args.cpus # <<>> /\ args.cpus[1] # 0 /\ args.coroutines /\ branch # "none"
        /\ exc = "none") =>
        (branch = "parallel" /\ "download_handler" \in ran /\ ~CoroutineDownload)
  /\ (args.cpus = << 0 >> /\ args.coroutines /\ branch # "none") => branch = "coroutine"

C6_Witness ==
  /\ args.cpus # <<>> /\ args.cpus[1] >= 1 /\ args.coroutines /\ args.prefix
  /\ pc = "done" /\ "download_handler" \in ran /\ files # {}

\* ------------------------------------------------------------ C7
Dispatched == pc = "dh_map" \/ running # {} \/ usedClient # {} \/ result # <<>>

\* C7: a download starts only after the fan-out: by then the listing is exhausted into
\* the job list and the parent directory of every job's destination exists; the
\* directories are made by the main process alone.
C7_Barrier ==
  "download_handler" \in ran =>
     /\ mkdirBy \subseteq {"main"}
     /\ Dispatched =>
          LET ks == K
          IN  /\ pageNo = Len(pages)
              /\ JobKeys = ks
              /\ \A i \in 1..Len(ks) :
                   LET parent == dirname(args.localdir \o ks[i])
                   IN  parent = <<>> \/ DirChain(parent) \subseteq dirs

C7_Witness ==
  /\ pc = "dh_map" /\ Cardinality(running) = 2 /\ Len(pages) = 2 /\ Len(K) = 3
  /\ \E i \in 1..Len(K) : dirname(args.localdir \o K[i]) \in dirs
  /\ \E i \in 1..Len(K) : dirname(args.localdir \o K[i]) = <<>>

\* ------------------------------------------------------------ C8
DistinctFiles ==
  /\ \A i, j \in 1..Len(mp_data) :
       i # j => mp_data[i].dest_path # mp_data[j].dest_path
  /\ \A i, j \in 1..Len(writeLog) : i # j => writeLog[i][2] # writeLog[j][2]

C9_OneAtATime ==
  PrefixRun =>
     /\ inflight <= 1
     /\ inflight = 1 => pc = "co_get"
     /\ Len(WrittenKeys) <= Len(K)
     /\ WrittenKeys = SubSeq(K, 1, Len(WrittenKeys))
     /\ files = Image(WrittenKeys)
     /\ pc \in {"co_get", "co_write"} =>
          /\ Len(WrittenKeys) < Len(K)
          /\ cur = << K[Len(WrittenKeys) + 1] >>

C9_Witness ==
  /\ PrefixRun /\ pc = "co_get" /\ inflight = 1
  /\ Len(writeLog) = 2 /\ pageNo = 2 /\ objNo = 1

\* ------------------------------------------------------------ C10
\* C10: every client a worker fetches with was constructed by that worker.
C10_OwnClient == usedClient \subseteq {"worker"}
====
